---- MODULE Spec2Model ----
(***************************************************************************)
(* Location resolution and geocoding pipeline of Base_de_donnee_musee.     *)
(*                                                                         *)
(* Representation of Python values:                                        *)
(*   - a str is a tuple of one-character strings ("Paris" is               *)
(*     <<"P","a","r","i","s">>);                                           *)
(*   - None / NaN is the tuple None == <<"None">>, which no str equals     *)
(*     because every element of a str has length one;                      *)
(*   - a float is the one-element tuple holding its decimal text           *)
(*     (48.856613 is <<"48.856613">>); no arithmetic is done on floats;    *)
(*   - a pandas DataFrame is a function column name -> sequence of cells;  *)
(*   - a dict is a function whose DOMAIN is its key set.                   *)
(* Time is counted in whole seconds.  The RateLimiter reads its monotonic  *)
(* clock only to form clock() - _last_call, so the state holds the elapsed *)
(* times and every passage of time advances all of them together.          *)
(***************************************************************************)
EXTENDS Integers, Sequences, FiniteSets, TLC

VARIABLES
    input_csv,      \* the input file: its "lieu de conservation" cells, row by row
    pc,             \* position of the batch script geocoding.py
    df,             \* the DataFrame
    villes_unique,  \* distinct non-null cities, in order of first appearance
    coords_dict,    \* city -> (lat, lon)
    idx,            \* position of the for loop in villes_unique
    query,          \* argument of the running geocode(query) call
    tries,          \* retry index i of the running RateLimiter call
    since_call,     \* RateLimiter: clock() - _last_call, NoCall while _last_call is None
    output_csv,     \* the output file: <<>> while absent, <<content>> once written
    calls,          \* history: the queries geocode() was invoked with
    requests,       \* history: requests sent by the running (or last) lookup
    minGap,         \* history: shortest time between two consecutive requests so far
    since_req,      \* history: time elapsed since the last request was sent
    since_fail,     \* history: time elapsed since the failure being retried
    lastAnswer,     \* history: kind of the service's answer to the last request
    lastOutcome,    \* history: how the last finished get_city_coordinates call ended
    loc,            \* parser harness: the location value under test
    parsed,         \* parser harness: results of the parsers for loc
    name,           \* normalizer harness: the column name under test
    normalized,     \* normalizer harness: the successive results of _normalize_col
    manual_fix_villes,  \* the module-level dict city -> (lat, lon) of the manual corrections
    country         \* the country argument of the get_city_coordinates calls (None at line 83)

vars == <<input_csv, pc, df, villes_unique, coords_dict, idx, query, tries,
          since_call, output_csv, calls, requests, minGap, since_req, since_fail,
          lastAnswer, lastOutcome, loc, parsed,
                   name, normalized, manual_fix_villes, country>>

----------------------------------------------------------------------------
(* Bounds of the model *)

MaxRecords == 3      \* rows of the input file
MaxDur == 1          \* longest duration of one request, in seconds
MaxLen == 4          \* longest location string given to the parser harness
MaxNameLen == 3      \* longest column name given to the normalizer harness
MaxCalls == 2        \* calls of get_city_coordinates made by the call harness

----------------------------------------------------------------------------
(* Python values *)

None == <<"None">>

NoTime == -1         \* an elapsed time that is not running; elapsed times are never negative

isna(x) == x = None

Whitespace == {" ", "\t", "\n"}

RECURSIVE lstrip(_)
lstrip(s) == IF s # <<>> /\ Head(s) \in Whitespace THEN lstrip(Tail(s)) ELSE s

RECURSIVE rstrip(_)
rstrip(s) == IF s # <<>> /\ s[Len(s)] \in Whitespace
             THEN rstrip(SubSeq(s, 1, Len(s) - 1)) ELSE s

strip(s) == rstrip(lstrip(s))

Contains(s, ch) == \E k \in 1..Len(s) : s[k] = ch

\* index of the first occurrence of ch in s, 0 when there is none
RECURSIVE find(_, _, _)
find(s, ch, k) == IF k > Len(s) THEN 0
                  ELSE IF s[k] = ch THEN k ELSE find(s, ch, k + 1)

\* s.split(sep): always at least one segment, "" .split(",") == [""]
RECURSIVE split(_, _)
split(s, sep) ==
    LET k == find(s, sep, 1)
    IN  IF k = 0 THEN <<s>>
        ELSE <<SubSeq(s, 1, k - 1)>> \o split(SubSeq(s, k + 1, Len(s)), sep)

\* s.split(sep, 1): at most one cut
split_once(s, sep) ==
    LET k == find(s, sep, 1)
    IN  IF k = 0 THEN <<s>> ELSE <<SubSeq(s, 1, k - 1), SubSeq(s, k + 1, Len(s))>>

\* what a subscript out of range raises
IndexError == <<"IndexError">>

\* seq[k - 1] of Python: the k-th item, or the exception
Item(seq, k) == IF k \in 1..Len(seq) THEN seq[k] ELSE IndexError

\* s.split(sep, 1)[1]
AfterFirst(s, sep) == Item(split_once(s, sep), 2)

StripAll(parts) == [k \in 1..Len(parts) |-> strip(parts[k])]

DictGet(d, k, default) == IF k \in DOMAIN d THEN d[k] ELSE default

----------------------------------------------------------------------------
(* geocoding.py: extraction of the city *)

\* variant: the first segment (the museum) is kept instead of the second
extract_city_first_segment(l) ==
    IF isna(l) THEN None
    ELSE LET l2 == IF Contains(l, ">") THEN strip(AfterFirst(l, ">")) ELSE l
             parts == StripAll(split(l2, ","))
         IN  IF Len(parts) >= 2 THEN parts[1] ELSE None

\* variant: the category prefix is not removed
extract_city_keep_prefix(l) ==
    IF isna(l) THEN None
    ELSE LET parts == StripAll(split(l, ","))
         IN  IF Len(parts) >= 2 THEN Item(parts, 2) ELSE None

\* variant: the text after ">" is taken without testing that ">" occurs
extract_city_unguarded(l) ==
    IF isna(l) THEN None
    ELSE LET after == AfterFirst(l, ">")
             parts == StripAll(split(strip(after), ","))
         IN  IF after = IndexError THEN IndexError
             ELSE IF Len(parts) >= 2 THEN Item(parts, 2) ELSE None

extract_city(l) ==
    IF isna(l) THEN None
    ELSE LET after == IF Contains(l, ">") THEN AfterFirst(l, ">") ELSE l
             parts == StripAll(split(strip(after), ","))
         IN  IF after = IndexError THEN IndexError
             ELSE IF Len(parts) >= 2 THEN Item(parts, 2) ELSE None

(* carte.py: parse_location (country = last segment after museum and city) *)

\* variant: the first two segments are unpacked in the wrong order
parse_location_carte_swapped(l) ==
    IF isna(l) THEN [pays |-> None, ville |-> None, musee |-> None]
    ELSE LET parts == StripAll(split(l, ","))
             rest == SubSeq(parts, 3, Len(parts))
         IN  IF Len(parts) >= 2
             THEN [pays |-> IF rest # <<>> THEN rest[Len(rest)] ELSE None,
                   ville |-> parts[1], musee |-> parts[2]]
             ELSE [pays |-> None, ville |-> None, musee |-> parts[1]]

\* variant: the missing value is not tested but converted with str()
parse_location_carte_str(l) ==
    LET l1 == IF isna(l) THEN <<"n", "a", "n">> ELSE l
        parts == StripAll(split(l1, ","))
        rest == SubSeq(parts, 3, Len(parts))
    IN  IF Len(parts) >= 2
        THEN [pays |-> IF rest # <<>> THEN rest[Len(rest)] ELSE None,
              ville |-> parts[2], musee |-> parts[1]]
        ELSE [pays |-> None, ville |-> None, musee |-> parts[1]]

parse_location_carte(l) ==
    IF isna(l) THEN [pays |-> None, ville |-> None, musee |-> None]
    ELSE LET parts == StripAll(split(l, ","))
             rest == SubSeq(parts, 3, Len(parts))
         IN  IF Len(parts) >= 2
             THEN [pays |-> IF rest # <<>> THEN rest[Len(rest)] ELSE None,
                   ville |-> parts[2], musee |-> parts[1]]
             ELSE IF Len(parts) = 1
             THEN [pays |-> None, ville |-> None, musee |-> Item(parts, 1)]
             ELSE [pays |-> None, ville |-> None, musee |-> None]

(* pages/carte_musees.py: parse_location (country = third segment) *)

\* variant: the segments are not trimmed
parse_location_carte_musees_nostrip(l) ==
    IF isna(l) THEN [pays |-> None, ville |-> None, musee |-> None]
    ELSE LET parts == split(l, ",")
         IN  IF Len(parts) >= 2
             THEN [pays |-> IF Len(parts) >= 3 THEN parts[3] ELSE None,
                   ville |-> parts[2], musee |-> parts[1]]
             ELSE [pays |-> None, ville |-> None, musee |-> parts[1]]

parse_location_carte_musees(l) ==
    IF isna(l) THEN [pays |-> None, ville |-> None, musee |-> None]
    ELSE LET parts == StripAll(split(l, ","))
         IN  IF Len(parts) >= 2
             THEN [pays |-> IF Len(parts) >= 3 THEN Item(parts, 3) ELSE None,
                   ville |-> Item(parts, 2), musee |-> Item(parts, 1)]
             ELSE IF Len(parts) = 1
             THEN [pays |-> None, ville |-> None, musee |-> Item(parts, 1)]
             ELSE [pays |-> None, ville |-> None, musee |-> None]

----------------------------------------------------------------------------
(* carte.py, dash_app.py, pages/carte_musees.py, pages/dashboard_oeuvres.py: *)
(* _normalize_col, the same text in the four files.  A character outside   *)
(* ASCII is written by its code point.                                     *)

e_acute == "U+00E9"            \* LATIN SMALL LETTER E WITH ACUTE
combining_acute == "U+0301"    \* COMBINING ACUTE ACCENT

\* the NFKD decomposition of one character
NFKD(ch) == IF ch = e_acute THEN <<"e", combining_acute>> ELSE <<ch>>

combining(ch) == ch = combining_acute

\* str.lower of one character
lower(ch) == IF ch = "A" THEN "a" ELSE IF ch = "L" THEN "l" ELSE ch

\* unicodedata.normalize("NFKD", s) of a string
RECURSIVE normalize(_)
normalize(s) == IF s = <<>> THEN <<>> ELSE NFKD(Head(s)) \o normalize(Tail(s))

NotCombining(ch) == ~combining(ch)

NonEmpty(q) == q # <<>>

\* the characters replaced by "_"
Replaced == {" ", "/", ">", "-", ".", ",", ";", ":", "(", ")", "'", "\""}

replace(s) == [k \in 1..Len(s) |-> IF s[k] \in Replaced THEN "_" ELSE s[k]]

\* sep.join(parts)
RECURSIVE join(_, _)
join(sep, parts) ==
    IF parts = <<>> THEN <<>>
    ELSE IF Len(parts) = 1 THEN parts[1]
    ELSE parts[1] \o <<sep>> \o join(sep, Tail(parts))

\* variant: the empty segments are kept
normalize_col_keep_empty(n) ==
    LET decomposed == normalize(n)
        nocomb == SelectSeq(decomposed, NotCombining)
        lowered == strip([k \in 1..Len(nocomb) |-> lower(nocomb[k])])
        parts == split(replace(lowered), "_")
    IN  join("_", parts)

normalize_col(n) ==
    LET decomposed == normalize(n)
        nocomb == SelectSeq(decomposed, NotCombining)
        lowered == strip([k \in 1..Len(nocomb) |-> lower(nocomb[k])])
        parts == SelectSeq(split(replace(lowered), "_"), NonEmpty)
    IN  join("_", parts)

----------------------------------------------------------------------------
(* geocoding.py: manual override table and geocoder setup *)

\* the dict literal of lines 31-43
ManualFixLiteral ==
    (<<"V", "e", "r", "s", "a", "i", "l", "l", "e", "s">> :> <<<<"48.804865">>, <<"2.120355">>>>) @@
    (<<"P", "a", "r", "i", "s">> :> <<<<"48.856613">>, <<"2.352222">>>>) @@
    (<<"N", "a", "n", "c", "y">> :> <<<<"48.692054">>, <<"6.184417">>>>) @@
    (<<"B", "a", "y", "o", "n", "n", "e">> :> <<<<"43.49255">>, <<"-1.47443">>>>) @@
    (<<"S", "t", "o", "c", "k", "h", "o", "l", "m">> :> <<<<"59.329323">>, <<"18.068581">>>>) @@
    (<<"B", "e", "r", "l", "i", "n">> :> <<<<"52.520008">>, <<"13.404954">>>>) @@
    (<<"M", "u", "l", "h", "o", "u", "s", "e">> :> <<<<"47.747">>, <<"7.335">>>>) @@
    (<<"M", "e", "u", "d", "o", "n">> :> <<<<"48.8147">>, <<"2.2518">>>>) @@
    (<<"A", "m", "i", "e", "n", "s">> :> <<<<"49.895">>, <<"2.295">>>>) @@
    (<<"M", "o", "n", "a", "c", "o">> :> <<<<"43.7384">>, <<"7.4246">>>>)

min_delay_seconds == 1
max_retries == 3
error_wait_seconds == 5

\* what the service can answer to one request: a location, "no match" (None),
\* a GeocoderServiceError (timeout, 5xx, unreachable: retried by the
\* RateLimiter) or any other exception (not retried)
GeoLocations == {[latitude |-> <<"10.5">>, longitude |-> <<"20.5">>]}
Answers == {[kind |-> "location", latitude |-> g.latitude, longitude |-> g.longitude] :
               g \in GeoLocations}
           \cup {[kind |-> k, latitude |-> None, longitude |-> None] :
                   k \in {"none", "service_error", "exception"}}

----------------------------------------------------------------------------
(* Input files of the model *)

Paris == <<"P", "a", "r", "i", "s">>
CityY == <<"Y">>
CityZ == <<"Z">>

Locations == {
    None,
    <<"A", ",", " ", "P", "a", "r", "i", "s", ",", " ", "F">>,
    <<"B", ",", " ", "P", "a", "r", "i", "s", ",", " ", "F">>,
    <<"C", ",", " ", "Y", ",", " ", "G">>,
    <<"L", "o", "u", "v", "r", "e">>,
    <<"t", " ", ">", " ", "D", ",", " ", "Z">> }

RECURSIVE SeqsUpTo(_, _)
SeqsUpTo(S, n) ==
    IF n = 0 THEN {<<>>}
    ELSE LET shorter == SeqsUpTo(S, n - 1)
         IN  shorter \cup {Append(q, x) : q \in {r \in shorter : Len(r) = n - 1}, x \in S}

\* the "domaine" cell of row k: distinct per row, so that rows are told apart
Digits == <<"1", "2", "3", "4", "5", "6", "7", "8", "9">>
RowTag(k) == <<"d", Digits[k]>>

LIEU == "lieu de conservation"

\* pd.read_csv keeps the headers of the file as they are written
read_csv_header(header, locs) ==
    (header :> locs) @@ ("domaine" :> [k \in 1..Len(locs) |-> RowTag(k)])

read_csv(locs) == read_csv_header(LIEU, locs)

NRows(d) == Len(d[LIEU])

----------------------------------------------------------------------------
(* geocoding.py as a state machine.  pc values:                            *)
(*   "loaded"  after read_csv (line 10)     "loop"     at the for (line 82)*)
(*   "acquire" in RateLimiter, before the request slot is granted          *)
(*   "request" slot granted, request about to be sent                      *)
(*   "error_wait" a retried failure was seen, sleep(error_wait_seconds) due*)
(*   "assemble" before line 89   "save" before line 96   "done" after it   *)
(*   "aborted" an exception left the script   "harness" function harness   *)

NoCall == NoTime    \* RateLimiter._last_call is None

EmptyDict == [k \in {} |-> None]

InitFromHeaders(files, headers) ==
    /\ input_csv \in files
    /\ \E h \in headers : df = read_csv_header(h, input_csv)
    /\ pc = "loaded"
    /\ villes_unique = <<>>
    /\ coords_dict = EmptyDict
    /\ idx = 1
    /\ query = None
    /\ tries = 0
    /\ since_call = NoCall
    /\ output_csv = <<>>
    /\ calls = <<>>
    /\ requests = 0
    /\ minGap = NoTime
    /\ since_req = NoTime
    /\ since_fail = NoTime
    /\ lastAnswer = "none_yet"
    /\ lastOutcome = "none_yet"
    /\ loc = None
    /\ parsed = EmptyDict
    /\ name = <<>>
    /\ normalized = <<>>
    /\ manual_fix_villes = ManualFixLiteral
    /\ country = None

InitFrom(files) == InitFromHeaders(files, {LIEU})

Init == InitFrom(SeqsUpTo(Locations, MaxRecords))

\* line 26: df["ville"] = df["lieu de conservation"].apply(extract_city)
\* (a frame without that column raises KeyError, which nothing catches)
ApplyExtractCity ==
    /\ pc = "loaded"
    /\ IF LIEU \in DOMAIN df
       THEN /\ df' = ("ville" :> [k \in 1..NRows(df) |-> extract_city(df[LIEU][k])]) @@ df
            /\ pc' = "unique"
       ELSE /\ df' = df
            /\ pc' = "aborted"
    /\ UNCHANGED <<input_csv, villes_unique, coords_dict, idx, query, tries,
                   since_call, output_csv, calls, requests, minGap, since_req,
                   since_fail, lastAnswer, lastOutcome, loc, parsed,
                   name, normalized, manual_fix_villes, country>>

\* a city key without its letter case and its spaces (the code never forms it)
casefold(s) ==
    LET low(ch) == IF ch = "Y" THEN "y" ELSE IF ch = "P" THEN "p" ELSE ch
        letters == SelectSeq(s, LAMBDA ch : ch # " ")
    IN  [k \in 1..Len(letters) |-> low(letters[k])]

\* variant: the cities are compared without case and spaces
RECURSIVE dropna_unique_casefold(_, _)
dropna_unique_casefold(col, seen) ==
    IF col = <<>> THEN <<>>
    ELSE IF isna(Head(col)) \/ casefold(Head(col)) \in seen
         THEN dropna_unique_casefold(Tail(col), seen)
    ELSE <<Head(col)>> \o dropna_unique_casefold(Tail(col), seen \cup {casefold(Head(col))})

\* variant: unique() without dropna()
RECURSIVE unique_only(_, _)
unique_only(col, seen) ==
    IF col = <<>> THEN <<>>
    ELSE IF Head(col) \in seen THEN unique_only(Tail(col), seen)
    ELSE <<Head(col)>> \o unique_only(Tail(col), seen \cup {Head(col)})

\* variant: dropna() without unique()
RECURSIVE dropna_only(_, _)
dropna_only(col, seen) ==
    IF col = <<>> THEN <<>>
    ELSE IF isna(Head(col)) THEN dropna_only(Tail(col), seen)
    ELSE <<Head(col)>> \o dropna_only(Tail(col), seen)

\* Series.dropna().unique(): the non-null values, each once, in order of first appearance
RECURSIVE dropna_unique(_, _)
dropna_unique(col, seen) ==
    IF col = <<>> THEN <<>>
    ELSE IF isna(Head(col)) \/ Head(col) \in seen THEN dropna_unique(Tail(col), seen)
    ELSE <<Head(col)>> \o dropna_unique(Tail(col), seen \cup {Head(col)})

\* variant: the loop is left after its first city
AfterCityBreak(k) == "assemble"

AfterCity(k) == IF k > Len(villes_unique) THEN "assemble" ELSE "loop"

\* lines 79-80
UniqueVilles ==
    /\ pc = "unique"
    /\ villes_unique' = dropna_unique(df["ville"], {})
    /\ coords_dict' = EmptyDict
    /\ idx' = 1
    /\ pc' = IF villes_unique' = <<>> THEN "assemble" ELSE "loop"
    /\ UNCHANGED <<input_csv, df, query, tries, since_call, output_csv, calls,
                   requests, minGap, since_req, since_fail, lastAnswer,
                   lastOutcome, loc, parsed,
                   name, normalized, manual_fix_villes, country>>

\* variant: the key is always formatted, also without a country
KeyAlways(city, ctry) == city \o <<",", " ">> \o ctry

\* line 57: key = f"{city}, {country}" if country else city
Key(city, ctry) ==
    IF ctry # None /\ ctry # <<>> THEN city \o <<",", " ">> \o ctry ELSE city

\* variant: a pair already stored for the city is kept (dict.setdefault)
ReturnToLoopKeepFirst(ville, lat, lon, outcome) ==
    /\ coords_dict' = coords_dict @@ (ville :> <<lat, lon>>)
    /\ idx' = idx + 1
    /\ pc' = AfterCity(idx + 1)
    /\ lastOutcome' = outcome
    /\ query' = None
    /\ tries' = 0
    /\ since_fail' = NoTime
    /\ UNCHANGED manual_fix_villes

\* variant: a pair obtained from the service is also entered in the manual table
ReturnToLoopLearn(ville, lat, lon, outcome) ==
    /\ coords_dict' = (ville :> <<lat, lon>>) @@ coords_dict
    /\ idx' = idx + 1
    /\ pc' = AfterCity(idx + 1)
    /\ lastOutcome' = outcome
    /\ query' = None
    /\ tries' = 0
    /\ since_fail' = NoTime
    /\ manual_fix_villes' = IF outcome = "ok"
                            THEN (ville :> <<lat, lon>>) @@ manual_fix_villes
                            ELSE manual_fix_villes

\* get_city_coordinates returns (lat, lon) to line 83 (its locals and the
\* RateLimiter's retry generator are gone); line 84 stores the pair and the
\* for loop moves to the next city
ReturnToLoop(ville, lat, lon, outcome) ==
    /\ coords_dict' = (ville :> <<lat, lon>>) @@ coords_dict
    /\ idx' = idx + 1
    /\ pc' = AfterCity(idx + 1)
    /\ lastOutcome' = outcome
    /\ query' = None
    /\ tries' = 0
    /\ since_fail' = NoTime
    /\ UNCHANGED manual_fix_villes

\* an exception leaves the script: nothing after the raising statement runs
Abort ==
    /\ pc' = "aborted"
    /\ UNCHANGED <<coords_dict, idx, lastOutcome, query, tries, since_fail,
                   manual_fix_villes>>

\* variant: the manual table is never consulted
InManualFixNever(city) == FALSE

\* line 59: if city in manual_fix_villes
InManualFix(city) == city \in DOMAIN manual_fix_villes

\* lines 55-62 of get_city_coordinates, called from line 83 with country=None:
\* a None city or a city of the manual table returns without touching the geocoder
ReturnEarly ==
    /\ pc = "loop"
    /\ LET ville == villes_unique[idx]
       IN  /\ ville = None \/ InManualFix(ville)
           /\ IF ville = None
              THEN ReturnToLoop(ville, None, None, "none_city")
              ELSE ReturnToLoop(ville, manual_fix_villes[ville][1],
                                manual_fix_villes[ville][2], "manual")
    /\ UNCHANGED <<input_csv, df, villes_unique, since_call, output_csv, calls,
                   requests, minGap, since_req, lastAnswer, loc, parsed,
                   name, normalized, country>>

\* lines 63-65: location = geocode(query), query being the key of line 57;
\* RateLimiter.__call__ starts its
\* retry generator at i = 0
CallGeocode ==
    /\ pc = "loop"
    /\ LET ville == villes_unique[idx]
       IN  /\ ville # None /\ ~InManualFix(ville)
           /\ query' = Key(ville, country)
    /\ calls' = Append(calls, query')
    /\ tries' = 0
    /\ requests' = 0
    /\ pc' = "acquire"
    /\ UNCHANGED <<input_csv, df, villes_unique, coords_dict, idx, since_call,
                   output_csv, minGap, since_req, since_fail, lastAnswer,
                   lastOutcome, loc, parsed,
                   name, normalized, manual_fix_villes, country>>

\* a running elapsed time t after d more seconds; sleep(d) is taken to last
\* exactly d seconds (a longer sleep only lengthens the gaps between requests)
Later(t, d) == IF t = NoTime THEN NoTime ELSE t + d

\* variant: a limiter built with min_delay_seconds=0
WaitForNoDelay(seconds_since_last_call) == 0 - seconds_since_last_call

\* RateLimiter: time still to wait before the next call may start
WaitFor(seconds_since_last_call) == min_delay_seconds - seconds_since_last_call

\* RateLimiter._acquire_request_slot: grant the slot (_last_call = clock())
\* when no call was made yet or min_delay_seconds have passed since the last
\* one, otherwise sleep for the missing time and look at the clock again
AcquireRequestSlot ==
    /\ pc = "acquire"
    /\ IF since_call = NoCall \/ WaitFor(since_call) <= 0
       THEN /\ since_call' = 0
            /\ pc' = "request"
            /\ UNCHANGED <<since_req, since_fail>>
       ELSE /\ since_call' = Later(since_call, WaitFor(since_call))
            /\ since_req' = Later(since_req, WaitFor(since_call))
            /\ since_fail' = Later(since_fail, WaitFor(since_call))
            /\ UNCHANGED pc
    /\ UNCHANGED <<input_csv, df, villes_unique, coords_dict, idx, query, tries,
                   output_csv, calls, requests, minGap, lastAnswer, lastOutcome,
                   loc, parsed,
                   name, normalized, manual_fix_villes, country>>

\* variant: one retry too many
IsLastTryOneMore(i) == i >= max_retries + 1

\* RateLimiter._retries_gen: is_last_try is True for i = max_retries
IsLastTry(i) == i >= max_retries

\* variant: swallow_exceptions=False and the error escapes the script
RaiseExhausted(ville) == Abort

\* RateLimiter with swallow_exceptions (the default): the failure of the last
\* try is swallowed and geocode() returns None, which lines 69-71 report as
\* NOT FOUND
SwallowExhausted(ville) == ReturnToLoop(ville, None, None, "exhausted")

\* variant: no except clause around geocode()
NoExcept(ville) == Abort

\* lines 72-74: except Exception
ExceptException(ville) == ReturnToLoop(ville, None, None, "error")

\* RateLimiter calls geolocator.geocode(query): one request to the service
\* and its answer, d seconds later (d stays below the geocoder's timeout)
SendRequest ==
    /\ pc = "request"
    /\ \E a \in Answers, d \in 0..MaxDur :
        LET ville == villes_unique[idx]
        IN  /\ since_call' = Later(since_call, d)
            /\ since_req' = d
            /\ lastAnswer' = a.kind
            /\ CASE a.kind = "location" ->
                      ReturnToLoop(ville, a.latitude, a.longitude, "ok")
                 [] a.kind = "none" ->
                      ReturnToLoop(ville, None, None, "not_found")
                 [] a.kind = "service_error" ->
                      IF IsLastTry(tries)
                      THEN SwallowExhausted(ville)
                      ELSE /\ pc' = "error_wait"
                           /\ since_fail' = 0
                           /\ UNCHANGED <<coords_dict, idx, lastOutcome, query, tries,
                                          manual_fix_villes>>
                 [] a.kind = "exception" ->
                      ExceptException(ville)
    /\ requests' = requests + 1
    /\ minGap' = IF since_req = NoTime THEN NoTime
                 ELSE IF minGap = NoTime \/ since_req < minGap
                 THEN since_req ELSE minGap
    /\ UNCHANGED <<input_csv, df, villes_unique, output_csv, calls, loc, parsed,
                   name, normalized, country>>

\* RateLimiter._retries_gen after a retried failure: sleep(error_wait_seconds),
\* then the next value of i
ErrorWait ==
    /\ pc = "error_wait"
    /\ since_call' = Later(since_call, error_wait_seconds)
    /\ since_req' = Later(since_req, error_wait_seconds)
    /\ since_fail' = Later(since_fail, error_wait_seconds)
    /\ tries' = tries + 1
    /\ pc' = "acquire"
    /\ UNCHANGED <<input_csv, df, villes_unique, coords_dict, idx, query,
                   output_csv, calls, requests, minGap, lastAnswer, lastOutcome,
                   loc, parsed,
                   name, normalized, manual_fix_villes, country>>

\* variant: rows without a city are left out of the column
CoordColumnDropNull(d, cd, j) ==
    LET kept == SelectSeq(d["ville"], LAMBDA v : ~isna(v))
    IN  [k \in 1..Len(kept) |-> DictGet(cd, kept[k], <<None, None>>)[j]]

\* variant: latitude and longitude taken from the wrong position of the pair
CoordColumnSwapped(d, cd, j) ==
    [k \in 1..Len(d["ville"]) |-> DictGet(cd, d["ville"][k], <<None, None>>)[3 - j]]

\* lines 89-90: df["ville"].map(lambda x: coords_dict.get(x, (None, None))[j])
\* variant: the default of coords_dict.get is not a pair of None
CoordColumnZeroDefault(d, cd, j) ==
    [k \in 1..Len(d["ville"]) |-> DictGet(cd, d["ville"][k], <<None, <<"0.0">>>>)[j]]

CoordColumn(d, cd, j) ==
    [k \in 1..Len(d["ville"]) |-> DictGet(cd, d["ville"][k], <<None, None>>)[j]]

Assemble ==
    /\ pc = "assemble"
    /\ df' = ("latitude" :> CoordColumn(df, coords_dict, 1)) @@
             ("longitude" :> CoordColumn(df, coords_dict, 2)) @@ df
    /\ pc' = "save"
    /\ UNCHANGED <<input_csv, villes_unique, coords_dict, idx, query, tries,
                   since_call, output_csv, calls, requests, minGap, since_req,
                   since_fail, lastAnswer, lastOutcome, loc, parsed,
                   name, normalized, manual_fix_villes, country>>

\* variant: only the columns of the input file are written
to_csv_input_columns(d) ==
    [c \in DOMAIN d \ {"ville", "latitude", "longitude"} |->
        [k \in 1..Len(d[c]) |-> IF isna(d[c][k]) THEN <<>> ELSE d[c][k]]]

\* DataFrame.to_csv: every column, row by row; a missing value is written as
\* the empty field
to_csv(d) ==
    [c \in DOMAIN d |-> [k \in 1..Len(d[c]) |-> IF isna(d[c][k]) THEN <<>> ELSE d[c][k]]]

\* line 96
Save ==
    /\ pc = "save"
    /\ output_csv' = <<to_csv(df)>>
    /\ pc' = "done"
    /\ UNCHANGED <<input_csv, df, villes_unique, coords_dict, idx, query, tries,
                   since_call, calls, requests, minGap, since_req, since_fail,
                   lastAnswer, lastOutcome, loc, parsed,
                   name, normalized, manual_fix_villes, country>>

Next ==
    \/ ApplyExtractCity
    \/ UniqueVilles
    \/ ReturnEarly
    \/ CallGeocode
    \/ AcquireRequestSlot
    \/ SendRequest
    \/ ErrorWait
    \/ Assemble
    \/ Save

Spec == Init /\ [][Next]_vars

\* Input files for the runs followed to their end: the prefixes of one file
\* that holds a null location, a location without city, an override city and
\* two cities resolved through the service, one of them twice
LiveFile == <<<<"C", ",", " ", "Y", ",", " ", "G">>,
              None,
              <<"t", " ", ">", " ", "D", ",", " ", "Z">>,
              <<"A", ",", " ", "P", "a", "r", "i", "s", ",", " ", "F">>,
              <<"L", "o", "u", "v", "r", "e">>,
              <<"C", ",", " ", "Y", ",", " ", "G">>>>

LiveFiles == {SubSeq(LiveFile, 1, n) : n \in 0..Len(LiveFile)}

InitLive == InitFrom(LiveFiles)

\* the script is one sequential process: whenever a statement can run, it runs
LiveSpec == InitLive /\ [][Next]_vars /\ WF_vars(Next)

----------------------------------------------------------------------------
(* The parsers as pure functions: the location value is drawn from the     *)
(* strings over Alphabet of length at most MaxLen and from None, and each  *)
(* parser is applied to it once.                                           *)

Alphabet == {"a", ",", " ", ">"}

Idle ==
    /\ input_csv = <<>>
    /\ villes_unique = <<>>
    /\ idx = 1
    /\ query = None
    /\ tries = 0
    /\ since_call = NoCall
    /\ output_csv = <<>>
    /\ calls = <<>>
    /\ requests = 0
    /\ minGap = NoTime
    /\ since_req = NoTime
    /\ since_fail = NoTime
    /\ lastAnswer = "none_yet"
    /\ lastOutcome = "none_yet"

InitParse ==
    /\ Idle
    /\ pc = "harness"
    /\ df = read_csv(<<>>)
    /\ coords_dict = EmptyDict
    /\ loc \in {None} \cup SeqsUpTo(Alphabet, MaxLen)
    /\ parsed = EmptyDict
    /\ name = <<>>
    /\ normalized = <<>>
    /\ manual_fix_villes = ManualFixLiteral
    /\ country = None

RunParser(parser, result) ==
    /\ pc = "harness"
    /\ parser \notin DOMAIN parsed
    /\ parsed' = (parser :> result) @@ parsed
    /\ UNCHANGED <<input_csv, pc, df, villes_unique, coords_dict, idx, query,
                   tries, since_call, output_csv, calls, requests, minGap,
                   since_req, since_fail, lastAnswer, lastOutcome, loc,
                   name, normalized, manual_fix_villes, country>>

RunParseLocationCarte == RunParser("carte", parse_location_carte(loc))

RunParseLocationCarteMusees == RunParser("carte_musees", parse_location_carte_musees(loc))

RunExtractCity ==
    RunParser("geocoding", [pays |-> None, ville |-> extract_city(loc), musee |-> None])

NextParse ==
    \/ RunParseLocationCarte
    \/ RunParseLocationCarteMusees
    \/ RunExtractCity

ParseSpec == InitParse /\ [][NextParse]_vars

----------------------------------------------------------------------------
(* The assembly (lines 89-96) as a function of the "ville" column and of   *)
(* the city -> coordinate map, both drawn from bounded sets: the map may   *)
(* lack a city of the column.                                              *)

Villes == {None, Paris, CityY, CityZ}

LocationOf(ville) == IF ville = None THEN None ELSE <<"M", ",", " ">> \o ville

Coordinates == {<<None, None>>, ManualFixLiteral[Paris]}
               \cup {<<g.latitude, g.longitude>> : g \in GeoLocations}

DictsOver(K, V) == UNION {[S -> V] : S \in SUBSET K}

InitAssemble ==
    /\ Idle
    /\ pc = "assemble"
    /\ \E col \in SeqsUpTo(Villes, MaxRecords) :
          /\ df = ("ville" :> col) @@ read_csv([k \in 1..Len(col) |-> LocationOf(col[k])])
    /\ coords_dict \in DictsOver({Paris, CityY}, Coordinates)
    /\ loc = None
    /\ parsed = EmptyDict
    /\ name = <<>>
    /\ normalized = <<>>
    /\ manual_fix_villes = ManualFixLiteral
    /\ country = None

NextAssemble ==
    \/ Assemble
    \/ Save

AssembleSpec == InitAssemble /\ [][NextAssemble]_vars

----------------------------------------------------------------------------
(* _normalize_col as a function of its argument: the name is drawn from    *)
(* the strings over NameAlphabet of length at most MaxNameLen; the function *)
(* is applied to it, and then once more to its own result.                 *)

NameAlphabet == {"a", "A", "1", e_acute, " ", "\t", "-", "!", "_"}

InitNormalize ==
    /\ Idle
    /\ pc = "harness"
    /\ df = read_csv(<<>>)
    /\ coords_dict = EmptyDict
    /\ loc = None
    /\ parsed = EmptyDict
    /\ name \in SeqsUpTo(NameAlphabet, MaxNameLen)
    /\ normalized = <<>>
    /\ manual_fix_villes = ManualFixLiteral
    /\ country = None

NormalizeName ==
    /\ pc = "harness"
    /\ normalized = <<>>
    /\ normalized' = <<normalize_col(name)>>
    /\ UNCHANGED <<input_csv, pc, df, villes_unique, coords_dict, idx, query,
                   tries, since_call, output_csv, calls, requests, minGap,
                   since_req, since_fail, lastAnswer, lastOutcome, loc, parsed,
                   name, manual_fix_villes, country>>

NormalizeAgain ==
    /\ pc = "harness"
    /\ Len(normalized) = 1
    /\ normalized' = Append(normalized, normalize_col(normalized[1]))
    /\ UNCHANGED <<input_csv, pc, df, villes_unique, coords_dict, idx, query,
                   tries, since_call, output_csv, calls, requests, minGap,
                   since_req, since_fail, lastAnswer, lastOutcome, loc, parsed,
                   name, manual_fix_villes, country>>

NextNormalize ==
    \/ NormalizeName
    \/ NormalizeAgain

NormalizeSpec == InitNormalize /\ [][NextNormalize]_vars

----------------------------------------------------------------------------
(* The script from its first statement, with a source file that may be     *)
(* absent or unreadable: pc = "start" before line 10, "load_failed" once    *)
(* the exception of read_csv has left the script.                          *)

Missing == <<<<"FileNotFoundError">>>>      \* no file at csv_path
Unreadable == <<<<"UnicodeDecodeError">>>>  \* a file that is not UTF-8 text

Raises(file) == file \in {Missing, Unreadable}

InitLoad ==
    /\ input_csv \in LiveFiles \cup {Missing, Unreadable}
    /\ pc = "start"
    /\ df = EmptyDict
    /\ villes_unique = <<>>
    /\ coords_dict = EmptyDict
    /\ idx = 1
    /\ query = None
    /\ tries = 0
    /\ since_call = NoCall
    /\ output_csv = <<>>
    /\ calls = <<>>
    /\ requests = 0
    /\ minGap = NoTime
    /\ since_req = NoTime
    /\ since_fail = NoTime
    /\ lastAnswer = "none_yet"
    /\ lastOutcome = "none_yet"
    /\ loc = None
    /\ parsed = EmptyDict
    /\ name = <<>>
    /\ normalized = <<>>
    /\ manual_fix_villes = ManualFixLiteral
    /\ country = None

\* variant: the exception is caught and the run goes on with an empty frame
LoadFailureSwallowed ==
    /\ df' = read_csv(<<>>)
    /\ pc' = "loaded"

\* the exception of read_csv is not caught: the script ends there
LoadFailure ==
    /\ pc' = "load_failed"
    /\ UNCHANGED df

\* line 10: df = pd.read_csv(csv_path, sep=";", encoding="utf-8")
ReadCsv ==
    /\ pc = "start"
    /\ IF Raises(input_csv)
       THEN LoadFailure
       ELSE /\ df' = read_csv(input_csv)
            /\ pc' = "loaded"
    /\ UNCHANGED <<input_csv, villes_unique, coords_dict, idx, query, tries,
                   since_call, output_csv, calls, requests, minGap, since_req,
                   since_fail, lastAnswer, lastOutcome, loc, parsed,
                   name, normalized, manual_fix_villes, country>>

NextLoad ==
    \/ ReadCsv
    \/ Next

LoadSpec == InitLoad /\ [][NextLoad]_vars

----------------------------------------------------------------------------
(* The script on files whose cities differ by letter case or by inner      *)
(* spaces only, one of them from the manual table but for its case.        *)

VerbatimLocations == {
    <<"M", ",", " ", "Y", "y">>,
    <<"M", ",", " ", "y", "y">>,
    <<"M", ",", " ", "Y", " ", "y">>,
    <<"M", ",", " ", "Y", " ", " ", "y">>,
    <<"M", ",", " ", "P", "a", "r", "i", "s">>,
    <<"M", ",", " ", "p", "a", "r", "i", "s">> }

VerbatimFiles == SeqsUpTo(VerbatimLocations, 2)

InitVerbatim == InitFrom(VerbatimFiles)

VerbatimSpec == InitVerbatim /\ [][Next]_vars

----------------------------------------------------------------------------
(* The script on files whose location header is written in several ways.   *)

LieuChars == <<"l", "i", "e", "u", " ", "d", "e", " ", "c", "o", "n", "s", "e",
               "r", "v", "a", "t", "i", "o", "n">>

\* the headers, with their characters
Spelling ==
    (LIEU :> LieuChars) @@
    ("Lieu de conservation" :> [LieuChars EXCEPT ![1] = "L"]) @@
    ("lieu_de_conservation" :>
        [k \in 1..Len(LieuChars) |-> IF LieuChars[k] = " " THEN "_" ELSE LieuChars[k]])

Headers == DOMAIN Spelling

InitHeaders == InitFromHeaders(LiveFiles, Headers)

HeaderSpec == InitHeaders /\ [][Next]_vars

----------------------------------------------------------------------------
(* get_city_coordinates under any sequence of calls: lines 82-84 run over  *)
(* a list of cities that, unlike villes_unique of the script, may hold     *)
(* None and may hold a city more than once.                                *)

InitCallsWith(countries) ==
    /\ input_csv = <<>>
    /\ \E n \in 1..MaxCalls : villes_unique \in [1..n -> Villes]
    /\ pc = "loop"
    /\ idx = 1
    /\ query = None
    /\ tries = 0
    /\ since_call = NoCall
    /\ output_csv = <<>>
    /\ calls = <<>>
    /\ requests = 0
    /\ minGap = NoTime
    /\ since_req = NoTime
    /\ since_fail = NoTime
    /\ lastAnswer = "none_yet"
    /\ lastOutcome = "none_yet"
    /\ df = ("ville" :> <<>>) @@ read_csv(<<>>)
    /\ coords_dict = EmptyDict
    /\ loc = None
    /\ parsed = EmptyDict
    /\ name = <<>>
    /\ normalized = <<>>
    /\ manual_fix_villes = ManualFixLiteral
    /\ country \in countries

InitCalls == InitCallsWith({None})

NextCalls ==
    \/ ReturnEarly
    \/ CallGeocode
    \/ AcquireRequestSlot
    \/ SendRequest
    \/ ErrorWait

CallSpec == InitCalls /\ [][NextCalls]_vars

\* the runs of the script together with the runs of direct calls
InitScriptOrCalls == InitLive \/ InitCalls

ScriptOrCallsSpec == InitScriptOrCalls /\ [][Next]_vars

\* direct calls with a country argument: absent, empty or given
Countries == {None, <<>>, <<"G">>}

InitCountryCalls == InitCallsWith(Countries)

CountrySpec == InitCountryCalls /\ [][NextCalls]_vars

----------------------------------------------------------------------------
(* Properties *)

Range(f) == {f[k] : k \in DOMAIN f}

Finished == pc \in {"assemble", "save", "done"}

\* no get_city_coordinates call is running: lastOutcome, lastAnswer and
\* requests all describe the last call that returned
Returned == pc \in {"loop", "assemble", "save", "done"}

\* the distinct non-null city keys of the records
CityKeys == IF "ville" \in DOMAIN df THEN Range(df["ville"]) \ {None} ELSE {}

\* C1: in one run the number of geocode lookups is at most the number of
\* distinct non-null city keys, and no city key is looked up twice, however
\* many records reference the city.
C1_OneLookupPerCity ==
    /\ Len(calls) <= Cardinality(CityKeys)
    /\ \A i, j \in 1..Len(calls) : i # j => calls[i] # calls[j]
    /\ Range(calls) \subseteq CityKeys

C1_Witness ==
    /\ pc = "done"
    /\ \E i, j \in 1..Len(df["ville"]) :
          i # j /\ df["ville"][i] = df["ville"][j] /\ df["ville"][i] \in Range(calls)

\* C2: a city key that exactly matches an entry of the manual override table
\* gets exactly the table's (latitude, longitude) and no geocode call is
\* made for it.
C2_ManualOverride ==
    /\ \A c \in DOMAIN coords_dict :
          c \in DOMAIN manual_fix_villes => coords_dict[c] = manual_fix_villes[c]
    /\ \A k \in 1..Len(calls) : calls[k] \notin DOMAIN manual_fix_villes
    /\ (Finished /\ Paris \in CityKeys) => Paris \in DOMAIN coords_dict

C2_Witness ==
    /\ pc = "done"
    /\ Paris \in DOMAIN coords_dict
    /\ calls # <<>>

\* C3: whatever way a city's lookup fails (not found, retries exhausted, an
\* exception of the geocode call), the city is recorded as (None, None), the
\* script is not aborted, and once the loop is over every distinct city has
\* its entry in the map.
C3_FailureIsLocal ==
    /\ pc # "aborted"
    /\ lastOutcome \in {"not_found", "exhausted", "error"}
          => /\ idx > 1
             /\ villes_unique[idx - 1] \in DOMAIN coords_dict
             /\ coords_dict[villes_unique[idx - 1]] = <<None, None>>
    /\ (Returned /\ lastOutcome = "not_found") => lastAnswer = "none"
    /\ (Returned /\ lastOutcome = "exhausted") => lastAnswer = "service_error"
    /\ (Returned /\ lastOutcome = "error") => lastAnswer = "exception"
    /\ Finished => Range(villes_unique) = DOMAIN coords_dict

C3_Witness ==
    /\ pc = "done"
    /\ Len(villes_unique) >= 2
    /\ lastOutcome = "ok"
    /\ \E k \in 1..Len(villes_unique) - 1 :
          /\ ~InManualFix(villes_unique[k])
          /\ coords_dict[villes_unique[k]] = <<None, None>>
    /\ coords_dict[villes_unique[Len(villes_unique)]] # <<None, None>>

\* C4: within one lookup at most 3 retries follow the first request, each
\* retry comes at least 5 seconds after the failure it retries, the lookup
\* goes on only after a retried failure (a location or a "not found" ends it
\* at once), and after the failure of the third retry the lookup gives up
\* with the city unresolved.
C4_BoundedRetry ==
    /\ tries <= 3
    /\ requests <= 4
    /\ (pc \in {"acquire", "request"} /\ tries > 0)
          => since_fail >= 5
    /\ (pc \in {"acquire", "request", "error_wait"} /\ requests > 0)
          => /\ lastAnswer = "service_error"
             /\ requests = IF pc = "error_wait" THEN tries + 1 ELSE tries
    /\ (Returned /\ lastOutcome = "exhausted")
          => /\ requests = 4
             /\ lastAnswer = "service_error"
             /\ coords_dict[villes_unique[idx - 1]] = <<None, None>>
    /\ (Returned /\ lastOutcome \in {"ok", "not_found", "error"})
          => lastAnswer # "service_error"

C4_Witness ==
    /\ lastOutcome = "exhausted"
    /\ requests = 4
    /\ pc = "done"

\* C5: two consecutive requests to the service, of the same city or of two
\* different cities, are at least 1 second apart.
C5_MinDelay == minGap = NoTime \/ minGap >= 1

\* requests of one lookup are at least 5 seconds apart, so a gap of exactly
\* 1 second is a gap between the requests of two different cities
C5_Witness ==
    /\ minGap = 1
    /\ Len(calls) = 2
    /\ requests = 1
    /\ lastAnswer = "location"

\* C6: once the input file is loaded the run terminates and writes the
\* output file, whatever the service answers.
C6_Terminates == <>(pc = "done" /\ output_csv # <<>>)

C6_Witness ==
    /\ pc = "done"
    /\ output_csv # <<>>
    /\ lastOutcome = "exhausted"
    /\ \A c \in DOMAIN coords_dict : coords_dict[c] = <<None, None>>
    /\ Len(calls) = 2
    /\ \E k \in 1..Len(df["ville"]) :
          df["ville"][k] # None /\ output_csv[1]["latitude"][k] = <<>>

\* C7: for the records "A, X, F", "B, X, F", "C, Y, G" where X is a city of
\* the override table (here Paris, whose entry is (48.856613, 2.352222)) and
\* Y is not, the run makes exactly one geocode lookup, for Y, and both
\* records of city X receive the table's latitude and longitude.
Scenario == <<<<"A", ",", " ", "P", "a", "r", "i", "s", ",", " ", "F">>,
              <<"B", ",", " ", "P", "a", "r", "i", "s", ",", " ", "F">>,
              <<"C", ",", " ", "Y", ",", " ", "G">>>>

C7_EndToEnd ==
    input_csv = Scenario
       => /\ calls \in {<<>>, <<CityY>>}
          /\ Finished => calls = <<CityY>>
          /\ pc = "done"
                => /\ output_csv[1]["latitude"][1] = <<"48.856613">>
                   /\ output_csv[1]["longitude"][1] = <<"2.352222">>
                   /\ output_csv[1]["latitude"][2] = <<"48.856613">>
                   /\ output_csv[1]["longitude"][2] = <<"2.352222">>
                   /\ output_csv[1]["ville"] = <<Paris, Paris, CityY>>

C7_Witness ==
    /\ input_csv = Scenario
    /\ pc = "done"
    /\ requests >= 1

\* C8: the output has as many records as the input, in the same order:
\* record k of the output is record k of the input with added fields, and
\* no resolution outcome drops, duplicates or reorders a record.
C8_OneToOne ==
    /\ \A c \in DOMAIN df : Len(df[c]) = Len(input_csv)
    /\ df[LIEU] = input_csv
    /\ pc = "done"
          => LET out == output_csv[1]
             IN  /\ {LIEU, "domaine", "ville", "latitude", "longitude"} \subseteq DOMAIN out
                 /\ \A c \in DOMAIN out : Len(out[c]) = Len(input_csv)
                 /\ \A k \in 1..Len(input_csv) :
                       /\ out[LIEU][k] = IF input_csv[k] = None THEN <<>> ELSE input_csv[k]
                       /\ out["domaine"][k] = RowTag(k)

C8_Witness ==
    /\ pc = "done"
    /\ Len(output_csv[1]["ville"]) = 3
    /\ \E i, j, k \in 1..3 :
          /\ output_csv[1]["ville"][i] = <<>>
          /\ output_csv[1]["ville"][j] # <<>> /\ output_csv[1]["latitude"][j] = <<>>
          /\ output_csv[1]["latitude"][k] # <<>>

\* C9: the (latitude, longitude) attached to a record is the pair the map
\* holds for the record's city; a record whose city is null or has no entry
\* in the map gets null latitude and longitude, without failure.
C9_CoordinateOfCity ==
    /\ pc # "aborted"
    /\ pc \in {"save", "done"}
          => \A k \in 1..Len(df["ville"]) :
                LET v == df["ville"][k]
                IN  /\ v \in DOMAIN coords_dict
                          => <<df["latitude"][k], df["longitude"][k]>> = coords_dict[v]
                    /\ (v = None \/ v \notin DOMAIN coords_dict)
                          => df["latitude"][k] = None /\ df["longitude"][k] = None

C9_Witness ==
    /\ pc = "done"
    /\ \E i, j, k \in 1..Len(df["ville"]) :
          /\ df["ville"][i] = None
          /\ df["ville"][j] # None /\ df["ville"][j] \notin DOMAIN coords_dict
          /\ df["ville"][k] \in DOMAIN coords_dict
          /\ coords_dict[df["ville"][k]] # <<None, None>>
          /\ df["latitude"][k] # df["longitude"][k]

\* C10: for a null location every parser returns null fields: both
\* parse_location give (musee, ville, pays) = (None, None, None) and
\* extract_city gives None.
AllNone == [pays |-> None, ville |-> None, musee |-> None]

C10_NullLocation ==
    loc = None =>
       /\ "carte" \in DOMAIN parsed => parsed["carte"] = AllNone
       /\ "carte_musees" \in DOMAIN parsed => parsed["carte_musees"] = AllNone
       /\ "geocoding" \in DOMAIN parsed => parsed["geocoding"].ville = None

C10_Witness ==
    /\ loc = None
    /\ DOMAIN parsed = {"carte", "carte_musees", "geocoding"}


\* r is s without its leading and trailing whitespace
IsTrimOf(r, s) ==
    /\ r = <<>> \/ (r[1] \notin Whitespace /\ r[Len(r)] \notin Whitespace)
    /\ \E a \in 0..Len(s) :
          /\ a + Len(r) <= Len(s)
          /\ SubSeq(s, a + 1, a + Len(r)) = r
          /\ \A k \in 1..Len(s) : (k <= a \/ k > a + Len(r)) => s[k] \in Whitespace

Commas(s) == {k \in 1..Len(s) : s[k] = ","}

ParseLocations == {"carte", "carte_musees"}

\* C11: for a non-null location without comma, parse_location gives
\* musee = the string without its surrounding whitespace, ville = None and
\* pays = None, and extract_city gives None.
C11_OneSegment ==
    (loc # None /\ Commas(loc) = {}) =>
       /\ \A p \in ParseLocations \cap DOMAIN parsed :
             /\ IsTrimOf(parsed[p].musee, loc)
             /\ parsed[p].ville = None
             /\ parsed[p].pays = None
       /\ "geocoding" \in DOMAIN parsed => parsed["geocoding"].ville = None

C11_Witness ==
    /\ loc = <<" ", "a", " ">>
    /\ DOMAIN parsed = {"carte", "carte_musees", "geocoding"}
    /\ parsed["carte_musees"].musee = <<"a">>

\* C12: for a location with exactly three comma-delimited segments both
\* parse_location give musee, ville, pays = the three segments, each without
\* its surrounding whitespace; with exactly two segments pays is None.
C12_TwoOrThreeSegments ==
    /\ (loc # None /\ Cardinality(Commas(loc)) = 2) =>
          LET i == CHOOSE k \in Commas(loc) : \A m \in Commas(loc) : k <= m
              j == CHOOSE k \in Commas(loc) : \A m \in Commas(loc) : k >= m
          IN  \A p \in ParseLocations \cap DOMAIN parsed :
                 /\ IsTrimOf(parsed[p].musee, SubSeq(loc, 1, i - 1))
                 /\ IsTrimOf(parsed[p].ville, SubSeq(loc, i + 1, j - 1))
                 /\ IsTrimOf(parsed[p].pays, SubSeq(loc, j + 1, Len(loc)))
    /\ (loc # None /\ Cardinality(Commas(loc)) = 1) =>
          LET i == CHOOSE k \in Commas(loc) : TRUE
          IN  \A p \in ParseLocations \cap DOMAIN parsed :
                 /\ IsTrimOf(parsed[p].musee, SubSeq(loc, 1, i - 1))
                 /\ IsTrimOf(parsed[p].ville, SubSeq(loc, i + 1, Len(loc)))
                 /\ parsed[p].pays = None

C12_Witness ==
    /\ loc = <<"a", ",", ",", ">">>
    /\ ParseLocations \subseteq DOMAIN parsed
    /\ parsed["carte"] = [musee |-> <<"a">>, ville |-> <<>>, pays |-> <<">">>]
    /\ parsed["carte_musees"] = parsed["carte"]


Fields == {"musee", "ville", "pays"}

BothParsed == ParseLocations \subseteq DOMAIN parsed

\* C13: one country policy: for every location string, with any number of
\* segments, the parse_location of carte.py and the parse_location of
\* pages/carte_musees.py return the same (musee, ville, pays).
C13_SameTriple == BothParsed => parsed["carte"] = parsed["carte_musees"]

\* C14: the parsers are total: for the null location and for every string
\* parse_location and extract_city return a result (each field None or a
\* string) and raise nothing.
C14_Total ==
    \A p \in DOMAIN parsed : \A f \in Fields :
        /\ parsed[p][f] # IndexError
        /\ parsed[p][f] = None \/ \A k \in 1..Len(parsed[p][f]) : parsed[p][f][k] \in Alphabet

C14_Witness ==
    /\ loc = <<">", ",", " ">>
    /\ DOMAIN parsed = {"carte", "carte_musees", "geocoding"}
    /\ parsed["geocoding"].ville = <<>>
    /\ parsed["carte"].musee = <<">">>


AllowedChars ==
    {"a", "b", "c", "d", "e", "f", "g", "h", "i", "j", "k", "l", "m",
     "n", "o", "p", "q", "r", "s", "t", "u", "v", "w", "x", "y", "z",
     "0", "1", "2", "3", "4", "5", "6", "7", "8", "9", "_"}

\* C15: _normalize_col is idempotent: applied to its own result it returns
\* that result unchanged.
C15_Idempotent == Len(normalized) = 2 => normalized[2] = normalized[1]

\* C16: the result of _normalize_col holds no whitespace, no accented
\* character and no character outside [a-z0-9_].
C16_Charset ==
    \A j \in 1..Len(normalized) : \A k \in 1..Len(normalized[j]) :
        normalized[j][k] \in AllowedChars

\* C17: the result of _normalize_col is empty or segment(_segment)*: it
\* neither starts nor ends with "_" and has no two consecutive "_"; a name
\* made only of replaced characters (the empty name included) gives the
\* empty string.
C17_Shape ==
    Len(normalized) >= 1 =>
       LET r == normalized[1]
       IN  /\ r # <<>> => r[1] # "_" /\ r[Len(r)] # "_"
           /\ \A k \in 1..(Len(r) - 1) : ~(r[k] = "_" /\ r[k + 1] = "_")
           /\ (\A k \in 1..Len(name) : name[k] \in Replaced) => r = <<>>

C17_Witness ==
    /\ name = <<"A", "-", e_acute>>
    /\ normalized = <<(<<"a", "_", "e">>)>>


Written == output_csv[1]

OriginalColumns == DOMAIN read_csv(input_csv)

C19_LoadFailureIsFatal ==
    Raises(input_csv) =>
       /\ pc \in {"start", "load_failed"}
       /\ calls = <<>>
       /\ requests = 0
       /\ since_call = NoCall
       /\ output_csv = <<>>

C19_Witness ==
    /\ input_csv = Missing
    /\ pc = "load_failed"


\* the calls of get_city_coordinates started so far, by their argument
Started ==
    SubSeq(villes_unique, 1,
           IF pc \in {"acquire", "request", "error_wait"} THEN idx ELSE idx - 1)

NeedsLookup(city) == city # None /\ city \notin DOMAIN manual_fix_villes

SameButCaseOrSpaces(c, d) == c # d /\ casefold(c) = casefold(d)

LookupsOf(city) == {i \in 1..Len(calls) : calls[i] = city}

\* C21: city keys are compared verbatim: two cities that differ only by
\* letter case or inner spaces are two keys, each with its own lookup and
\* its own entry of coords_dict, and a city that differs from a city of the
\* manual table by case only is looked up, not overridden.
C21_VerbatimKeys ==
    Finished =>
       \A c \in CityKeys : \A d \in CityKeys \cup DOMAIN manual_fix_villes :
          SameButCaseOrSpaces(c, d) =>
             /\ c \in DOMAIN coords_dict
             /\ InManualFix(c) \/ Cardinality(LookupsOf(c)) = 1
             /\ InManualFix(d) => coords_dict[c] # manual_fix_villes[d]

C21_Witness ==
    /\ pc = "done"
    /\ df["ville"] = <<<<"p", "a", "r", "i", "s">>, Paris>>
    /\ calls = <<<<"p", "a", "r", "i", "s">>>>
    /\ coords_dict[Paris] = manual_fix_villes[Paris]
    /\ lastOutcome = "manual"

\* C22: the batch job looks the location column up by its canonical name:
\* a file whose header has the canonical name of "lieu de conservation"
\* (same but for case, accents or punctuation) is processed, its location
\* column is found.
C22_CanonicalHeaderFound ==
    (\E h \in Headers \cap DOMAIN df :
        normalize_col(Spelling[h]) = normalize_col(Spelling[LIEU]))
       => pc # "aborted"

Min(S) == CHOOSE k \in S : \A m \in S : k <= m

\* C23: extract_city drops everything up to and including the first ">" of
\* the whole string and then takes the second comma-delimited segment of
\* what remains; parse_location drops nothing: when every ">" lies in the
\* first segment, musee is that whole segment, prefix included.
C23_CategoryPrefix ==
    (loc # None /\ Contains(loc, ">")) =>
       LET g == Min({k \in 1..Len(loc) : loc[k] = ">"})
           after == {k \in Commas(loc) : k > g}
           first == Min(Commas(loc) \cup {Len(loc) + 1})
       IN  /\ "geocoding" \in DOMAIN parsed =>
                IF after = {} THEN parsed["geocoding"].ville = None
                ELSE LET i == Min(after)
                         j == Min({k \in after : k > i} \cup {Len(loc) + 1})
                     IN  IsTrimOf(parsed["geocoding"].ville, SubSeq(loc, i + 1, j - 1))
           /\ (\A k \in 1..Len(loc) : loc[k] = ">" => k < first) =>
                \A p \in ParseLocations \cap DOMAIN parsed :
                   /\ IsTrimOf(parsed[p].musee, SubSeq(loc, 1, first - 1))
                   /\ Contains(parsed[p].musee, ">")

C23_Witness ==
    /\ loc = <<"a", ">", ",", "a">>
    /\ DOMAIN parsed = {"carte", "carte_musees", "geocoding"}
    /\ parsed["geocoding"].ville = <<"a">>
    /\ parsed["carte"].musee = <<"a", ">">>
    /\ parsed["carte_musees"].musee = <<"a", ">">>

\* C24: for the empty string, a location text without segment content,
\* parse_location returns the all-null triple.
C24_EmptyIsAllNull ==
    loc = <<>> => \A p \in ParseLocations \cap DOMAIN parsed : parsed[p] = AllNone

BothOrNeither(lat, lon, null) == (lat = null) <=> (lon = null)

\* C25: every pair of coords_dict and the (latitude, longitude) of every
\* record, in the frame and in the written file, is either two coordinates
\* or two nulls, never one of each.
C25_PairsAreWhole ==
    /\ \A c \in DOMAIN coords_dict :
          BothOrNeither(coords_dict[c][1], coords_dict[c][2], None)
    /\ "latitude" \in DOMAIN df <=> "longitude" \in DOMAIN df
    /\ "latitude" \in DOMAIN df =>
          \A k \in 1..Len(df["latitude"]) :
             BothOrNeither(df["latitude"][k], df["longitude"][k], None)
    /\ pc = "done" =>
          \A k \in 1..Len(Written["latitude"]) :
             BothOrNeither(Written["latitude"][k], Written["longitude"][k], <<>>)

C25_Witness ==
    /\ pc = "done"
    /\ \E i, j \in 1..Len(df["ville"]) :
          /\ df["latitude"][i] # None /\ df["longitude"][i] # None
          /\ df["ville"][i] \notin DOMAIN manual_fix_villes
          /\ df["ville"][j] # None
          /\ df["latitude"][j] = None /\ df["longitude"][j] = None

\* C26: the manual table is the same in every state of a run: no outcome of
\* a resolution adds, removes or alters an entry, and a city resolved by the
\* service is not in the table afterwards.
C26_ManualTableFixed ==
    /\ manual_fix_villes = ManualFixLiteral
    /\ \A k \in 1..Len(calls) : calls[k] \notin DOMAIN manual_fix_villes

C26_Witness ==
    /\ pc = "done"
    /\ \E c \in DOMAIN coords_dict :
          /\ c \notin DOMAIN manual_fix_villes
          /\ coords_dict[c] # <<None, None>>
    /\ \E c \in DOMAIN coords_dict : c \in DOMAIN manual_fix_villes
    /\ \E c \in DOMAIN coords_dict :
          c \notin DOMAIN manual_fix_villes /\ coords_dict[c] = <<None, None>>

InLookup == pc \in {"acquire", "request", "error_wait"}

Complete(col) == col \in DOMAIN df /\ Len(df[col]) = Len(input_csv)

StagesInOrder ==
    /\ (InLookup \/ calls # <<>>) => Complete("ville")
    /\ ("latitude" \in DOMAIN df \/ "longitude" \in DOMAIN df) =>
          /\ Complete("ville")
          /\ CityKeys \subseteq DOMAIN coords_dict
          /\ ~InLookup
    /\ output_csv # <<>> => Complete("latitude") /\ Complete("longitude")

NoRequestStep ==
    /\ calls' = calls
    /\ requests' = requests
    /\ since_call' = since_call
    /\ ~InLookup'

\* C27: the stages run in order: every record has its city before the first
\* lookup starts, every distinct city has its outcome in coords_dict before
\* a record gets coordinates, the file is written after all records have
\* theirs, and once the assembly has begun no request is made.
C27_StagesInOrder ==
    /\ []StagesInOrder
    /\ [][Finished => NoRequestStep]_vars

C27_Witness ==
    /\ pc = "done"
    /\ Len(calls) >= 2
    /\ requests >= 2
    /\ Len(input_csv) = 3

\* line 80 gives the loop the distinct non-null cities of the records
ResolverInputStep ==
    pc = "unique" =>
       /\ None \notin Range(villes_unique')
       /\ Range(villes_unique') = CityKeys
       /\ \A i, j \in 1..Len(villes_unique') : i # j => villes_unique'[i] # villes_unique'[j]

\* get_city_coordinates(None) returns (None, None) by its first test
NullCityStep ==
    (pc = "loop" /\ villes_unique[idx] = None) =>
       /\ calls' = calls
       /\ requests' = requests
       /\ since_call' = since_call
       /\ ~InLookup'
       /\ lastOutcome' = "none_city"
       /\ coords_dict'[None] = <<None, None>>

\* C28: a null city never reaches the service: the loop is given the
\* distinct non-null cities, so that coords_dict gets no null key, and
\* get_city_coordinates called with a null city returns (None, None) without
\* looking at the manual table and without a request.
C28_NullNeverSent ==
    /\ [][ResolverInputStep]_vars
    /\ [][NullCityStep]_vars
    /\ [](/\ DOMAIN coords_dict \subseteq Range(villes_unique)
          /\ None \notin Range(villes_unique) => None \notin DOMAIN coords_dict
          /\ None \notin Range(calls)
          /\ query = None \/ InLookup)

C28_Witness ==
    /\ villes_unique = <<None, CityY>>
    /\ pc = "assemble"
    /\ calls = <<CityY>>
    /\ coords_dict[None] = <<None, None>>

\* C29: the city used for geocoding is the city shown by the pages: for
\* every non-null location string extract_city gives the ville field of
\* parse_location.
C29_SameCity ==
    (loc # None /\ "geocoding" \in DOMAIN parsed) =>
       \A p \in ParseLocations \cap DOMAIN parsed :
          parsed["geocoding"].ville = parsed[p].ville

Qualified(city) ==
    IF country = None \/ Len(country) = 0 THEN city
    ELSE [k \in 1..(Len(city) + 2 + Len(country)) |->
             IF k <= Len(city) THEN city[k]
             ELSE IF k = Len(city) + 1 THEN ","
             ELSE IF k = Len(city) + 2 THEN " "
             ELSE country[k - Len(city) - 2]]

\* C30: with a country argument the manual table is still matched on the
\* city alone: a city of the table gets the pair of the table, without a
\* request, whatever the country; for another city the query sent is
\* "<city>, <country>" when the country is not empty, the bare city otherwise.
C30_CountryQualifier ==
    LET looked == SelectSeq(Started, NeedsLookup)
    IN  /\ Len(calls) = Len(looked)
        /\ \A k \in 1..Len(calls) : calls[k] = Qualified(looked[k])
        /\ InLookup => query = Qualified(villes_unique[idx])
        /\ \A c \in DOMAIN coords_dict :
              c \in DOMAIN ManualFixLiteral => coords_dict[c] = ManualFixLiteral[c]

C30_Witness ==
    /\ country = <<"G">>
    /\ villes_unique = <<Paris, CityY>>
    /\ pc = "assemble"
    /\ calls = <<(<<"Y", ",", " ", "G">>)>>
    /\ coords_dict[Paris] = ManualFixLiteral[Paris]

====
